---- MODULE Spec2Model ----
(***************************************************************************)
(* Model of the container recreator of minecraft-bedrock-server-manager    *)
(* (the Node script embedded in src/docker-entrypoint.sh, lines 301-577):  *)
(* the network/port policy helpers, the container descriptor they build,   *)
(* and recreateServers, the batch that creates and starts one container    *)
(* per server directory through the Docker API.                            *)
(*                                                                         *)
(* Conventions.                                                            *)
(*  - A JavaScript string is a sequence of one-character strings, so that  *)
(*    toLowerCase, includes, startsWith and + are modelled by what they do.*)
(*  - A JSON / JavaScript value is a record [type, str, num]; `type` is    *)
(*    one of "undefined", "null", "boolean", "number", "string", "object". *)
(*  - Memory sizes are in MiB (TLC integers are 32 bits wide and the       *)
(*    default of 2147483648 bytes does not fit): 2147483648 B = 2048 MiB.  *)
(*  - Each action is one awaited call of recreateServers together with the *)
(*    synchronous code that runs until the next await.                     *)
(***************************************************************************)
EXTENDS Integers, Sequences, FiniteSets, TLC

(***************************************************************************)
(* Bounds of the exploration.                                              *)
(***************************************************************************)
\* number of bedrock-* directories of a batch
MaxDirs == 2

(***************************************************************************)
(* JavaScript values.                                                      *)
(***************************************************************************)
Undefined == [type |-> "undefined", str |-> <<>>, num |-> 0]
Null      == [type |-> "null",      str |-> <<>>, num |-> 0]
Str(s)    == [type |-> "string",    str |-> s,    num |-> 0]
Num(n)    == [type |-> "number",    str |-> <<>>, num |-> n]
Bool(b)   == [type |-> "boolean",   str |-> <<>>, num |-> IF b THEN 1 ELSE 0]
Obj       == [type |-> "object",    str |-> <<>>, num |-> 0]

\* ToBoolean of the language: what `!v` and `a || b` test
Truthy(v) ==
    CASE v.type = "undefined" -> FALSE
      [] v.type = "null"      -> FALSE
      [] v.type = "boolean"   -> v.num = 1
      [] v.type = "number"    -> v.num # 0
      [] v.type = "string"    -> Len(v.str) > 0
      [] OTHER                -> TRUE

\* a || b
Or(a, b) == IF Truthy(a) THEN a ELSE b

\* String.prototype.toLowerCase, one character
LowerChar(c) ==
    CASE c = "A" -> "a" [] c = "C" -> "c" [] c = "I" -> "i" [] c = "L" -> "l"
      [] c = "M" -> "m" [] c = "N" -> "n" [] c = "P" -> "p" [] c = "V" -> "v"
      [] OTHER -> c

toLowerCase(s) == [i \in 1..Len(s) |-> LowerChar(s[i])]

\* String.prototype.startsWith
startsWith(s, p) == Len(p) <= Len(s) /\ SubSeq(s, 1, Len(p)) = p

\* String.prototype.includes: p occurs in s at some index
includes(s, p) ==
    \E i \in 1..(Len(s) - Len(p) + 1) : SubSeq(s, i, i + Len(p) - 1) = p

\* Number -> decimal string, as `${n}` prints a non-negative integer
Digit(d) == <<"0", "1", "2", "3", "4", "5", "6", "7", "8", "9">>[d + 1]

RECURSIVE Dec(_)
Dec(n) == IF n < 10 THEN <<Digit(n)>> ELSE Dec(n \div 10) \o <<Digit(n % 10)>>

(***************************************************************************)
(* String literals of the program.                                         *)
(***************************************************************************)
DefaultDataDir == <<"/", "o", "p", "t", "/", "m", "i", "n", "e", "c", "r", "a", "f", "t", "-", "s", "e", "r", "v", "e", "r", "s">>
BEDROCK_IMAGE == "itzg/minecraft-bedrock-server"
BedrockPrefix == <<"b", "e", "d", "r", "o", "c", "k", "-">>
MountDestination == <<"/", "a", "p", "p", "/", "m", "i", "n", "e", "c", "r", "a", "f", "t", "-", "d", "a", "t", "a">>
noPortMappingModes == { <<"m", "a", "c", "v", "l", "a", "n">>, <<"i", "p", "v", "l", "a", "n">> }
EulaEnv == <<"E", "U", "L", "A", "=", "T", "R", "U", "E">>
VersionKey == <<"V", "E", "R", "S", "I", "O", "N", "=">>
Latest == <<"L", "A", "T", "E", "S", "T">>
ServerNameKey == <<"S", "E", "R", "V", "E", "R", "_", "N", "A", "M", "E", "=">>
DefaultServerName == <<"B", "e", "d", "r", "o", "c", "k", " ", "S", "e", "r", "v", "e", "r">>
SshEnv == <<"E", "N", "A", "B", "L", "E", "_", "S", "S", "H", "=", "T", "R", "U", "E">>
DataTarget == <<":", "/", "d", "a", "t", "a">>
ServicePortKey == <<"1", "9", "1", "3", "2", "/", "u", "d", "p">>
ServiceHostPort == <<"1", "9", "1", "3", "2">>
\* the number applyPortConfig returns when it binds the host port
ServicePort == 19132
\* metadata.memory || 2147483648, in MiB
DefaultMemory == 2048
\* the range validateMemory accepts, in MiB: 256 MiB to 32 GiB
MinMemory == 256
MaxMemory == 32768

(***************************************************************************)
(* Inputs of the exploration: directory names, network names, metadata.    *)
(***************************************************************************)
DirNames == << <<"b", "e", "d", "r", "o", "c", "k", "-", "a">>,
               <<"b", "e", "d", "r", "o", "c", "k", "-", "b">>,
               <<"b", "e", "d", "r", "o", "c", "k", "-", "c">>,
               <<"b", "e", "d", "r", "o", "c", "k", "-", "d">> >>
\* an entry of DATA_DIR that is no server directory
OtherItem == <<"b", "a", "c", "k", "u", "p", "s">>
\* the Source of the manager's /app/minecraft-data mount, as the host sees it
HostMountSource == <<"/", "s", "r", "v", "/", "m", "c">>
ManagerName == <<"m", "a", "n", "a", "g", "e", "r">>
\* the same of a manager container that was stopped and left behind
OldMountSource == <<"/", "s", "r", "v", "/", "o", "l", "d">>
OldManagerName == <<"m", "a", "n", "a", "g", "e", "r", "-", "o", "l", "d">>

NetMinecraftMacvlan == <<"m", "i", "n", "e", "c", "r", "a", "f", "t", "-", "m", "a", "c", "v", "l", "a", "n">>
NetMynet == <<"m", "y", "n", "e", "t">>
\* names that hold a directly addressable mode, in several cases and positions
DirectNetworkNames ==
    { NetMinecraftMacvlan,
      <<"M", "A", "C", "V", "L", "A", "N">>,
      <<"i", "p", "v", "l", "a", "n">>,
      <<"l", "a", "n", "-", "I", "p", "V", "l", "a", "n", "-", "2">>,
      <<"i", "p", "v", "l", "a", "-", "m", "a", "c", "v", "l", "a", "n">> }
\* names that hold none, near misses included
MappedNetworkNames ==
    { NetMynet,
      <<"b", "r", "i", "d", "g", "e">>,
      <<"h", "o", "s", "t">>,
      <<"m", "a", "c", "v", "l", "a">>,
      <<"m", "a", "c", "-", "v", "l", "a", "n">>,
      <<"v", "l", "a", "n">> }
NetworkNames == DirectNetworkNames \cup MappedNetworkNames

\* what the network field of a metadata.json can hold: any JSON type
NetworkValues ==
    {Undefined, Null, Str(<<>>), Num(0), Num(5), Bool(FALSE), Bool(TRUE), Obj}
        \cup {Str(n) : n \in NetworkNames}

\* an image reference set in the environment
CustomImage == "registry.local/bedrock:1.21"

NameSurvival == <<"S", "u", "r", "v", "i", "v", "a", "l">>
Version121 == <<"1", ".", "2", "1", ".", "0">>

Meta(name, version, memory, network, port) ==
    [name |-> name, version |-> version, memory |-> memory,
     network |-> network, port |-> port]

EmptyMeta == Meta(Undefined, Undefined, Undefined, Undefined, Undefined)

\* metadata records of a batch of several directories
BatchRecords ==
    { EmptyMeta,
      Meta(Str(NameSurvival), Str(Latest), Num(DefaultMemory), Str(NetMinecraftMacvlan), Num(19133)),
      Meta(Undefined, Undefined, Undefined, Num(5), Undefined) }

\* metadata records of a single directory: every network value, and every
\* combination of present and absent name, version, memory and port
SingleRecords ==
    { Meta(Undefined, Undefined, Undefined, n, Undefined) : n \in NetworkValues }
    \* a memory of 64 MiB and one of 64 GiB, in MiB
    \cup { Meta(Undefined, Undefined, Num(m), Undefined, Undefined) :
               m \in {64, 65536} }
    \* an empty name and an empty version
    \cup { Meta(Str(<<>>), Str(<<>>), Undefined, Undefined, Undefined) }
    \cup { Meta(nm, v, m, n, p) :
             nm \in {Undefined, Str(NameSurvival)},
             v \in {Undefined, Str(Version121)},
             m \in {Undefined, Num(1024)},
             n \in {Undefined, Str(NetMinecraftMacvlan)},
             p \in {Undefined, Num(19133)} }

\* what a directory holds: no metadata.json, an unparseable one, or a record
Missing == [kind |-> "missing", json |-> EmptyMeta]
Corrupt == [kind |-> "corrupt", json |-> EmptyMeta]
Json(m) == [kind |-> "json", json |-> m]

(***************************************************************************)
(* State.                                                                  *)
(***************************************************************************)
VARIABLES
    DOCKER_NETWORK,   \* process.env.DOCKER_NETWORK || null
    ENABLE_SSH,       \* the SSH toggle read from the environment
    dataDirExists,    \* whether DATA_DIR exists
    items,            \* the entries of DATA_DIR, in readdir order
    files,            \* directory name -> what its metadata.json holds
    containers,       \* the containers the Docker daemon knows
    imagePresent,     \* BEDROCK_IMAGE is in the daemon's local store
    pullInProgress,   \* the daemon is pulling BEDROCK_IMAGE
    pc,               \* the await recreateServers is suspended at
    hostDataPath,     \* const hostDataPath
    serverDirs,       \* const serverDirs
    idx,              \* position of the for loop in serverDirs
    successCount,
    failureCount,
    metadata,         \* const metadata of the current iteration
    containerConfig,  \* const containerConfig of the current iteration
    portResult,       \* const portResult of the current iteration
    outcome,          \* what was printed for each directory of this run
    before,           \* the containers of each directory when the run began
    envBedrockImage,  \* process.env.BEDROCK_IMAGE ("" when unset)
    cacheInvalidations, \* server IDs whose cache entry the script invalidated
    broadcasts,       \* server IDs the script published an event for
    other,            \* the server ID a concurrent run is about to create
    shpc,             \* the command docker-entrypoint.sh is at
    user,             \* the user the entrypoint is started as
    sockPresent,      \* [ -S /var/run/docker.sock ]
    sockGid,          \* the group ID that owns the socket
    groups,           \* /etc/group: name -> [gid, members]
    DOCKER_GID,       \* the shell variable
    EXISTING_GROUP,   \* the shell variable
    ranAs,            \* the user the application command was executed as
    serverCache,      \* key -> CacheEntry of the manager's cache
    inspection,       \* key -> what an inspection of the server yields now
    clock,            \* the time, in seconds
    getters,          \* client -> the get it has under way
    returned,         \* what the last step returned to the caller of a get
    invalidatedAt     \* key -> the inspection data when the key was invalidated

vars == <<DOCKER_NETWORK, ENABLE_SSH, dataDirExists, items, files, containers,
          imagePresent, pullInProgress, pc, hostDataPath, serverDirs, idx,
          successCount, failureCount, metadata, containerConfig, portResult,
          outcome, before, envBedrockImage, cacheInvalidations, broadcasts,
          other, shpc, user, sockPresent, sockGid, groups, DOCKER_GID,
          EXISTING_GROUP, ranAs, serverCache, inspection, clock, getters,
          returned, invalidatedAt>>

(***************************************************************************)
(* Network and port policy, container descriptor.                          *)
(***************************************************************************)
\* PolicyNetwork with the process-wide default taking precedence
PolicyNetworkDefaultFirst(md) == Or(DOCKER_NETWORK, md.network)

\* const networkMode = metadata.network || DOCKER_NETWORK  (requiresPortMapping)
PolicyNetwork(md) == Or(md.network, DOCKER_NETWORK)

\* requiresPortMapping without the toLowerCase
requiresPortMappingCaseSensitive(md) ==
    LET networkMode == PolicyNetwork(md) IN
    IF ~Truthy(networkMode) THEN [threw |-> FALSE, value |-> TRUE]
    ELSE IF networkMode.type # "string" THEN [threw |-> TRUE, value |-> FALSE]
    ELSE [threw |-> FALSE,
          value |-> ~(\E mode \in noPortMappingModes : includes(networkMode.str, mode))]

\* requiresPortMapping without `if (!networkMode) return true`
requiresPortMappingUnguarded(md) ==
    LET networkMode == PolicyNetwork(md) IN
    IF networkMode.type # "string" THEN [threw |-> TRUE, value |-> FALSE]
    ELSE [threw |-> FALSE,
          value |-> ~(\E mode \in noPortMappingModes :
                         includes(toLowerCase(networkMode.str), mode))]

\* requiresPortMapping: the completion of the call. networkMode.toLowerCase
\* exists on strings only; on any other truthy value the call raises a
\* TypeError.
requiresPortMapping(md) ==
    LET networkMode == PolicyNetwork(md) IN
    IF ~Truthy(networkMode) THEN [threw |-> FALSE, value |-> TRUE]
    ELSE IF networkMode.type # "string" THEN [threw |-> TRUE, value |-> FALSE]
    ELSE [threw |-> FALSE,
          value |-> ~(\E mode \in noPortMappingModes :
                         includes(toLowerCase(networkMode.str), mode))]

\* buildContainerEnv pushing the SSH flag whatever the toggle
buildContainerEnvSshAlways(md) ==
    << EulaEnv,
       VersionKey \o Or(md.version, Str(Latest)).str,
       ServerNameKey \o Or(md.name, Str(DefaultServerName)).str,
       SshEnv >>

buildContainerEnv(md) ==
    LET env == << EulaEnv,
                  VersionKey \o Or(md.version, Str(Latest)).str,
                  ServerNameKey \o Or(md.name, Str(DefaultServerName)).str >>
    IN IF ENABLE_SSH THEN Append(env, SshEnv) ELSE env

\* path.join(a, b) of two well-formed paths
PathJoin(a, b) == a \o <<"/">> \o b

\* BaseContainerConfig without the name: the daemon names the container
\* itself, after the number of containers it holds
BaseContainerConfigUnnamed(serverId, md, hostData) ==
    [ Image  |-> BEDROCK_IMAGE,
      name   |-> <<"c">> \o Dec(Cardinality(containers)),
      Labels |-> ("server-id" :> Str(serverId))
                 @@ ("server-name" :> Or(md.name, Str(DefaultServerName))),
      Env    |-> buildContainerEnv(md),
      HostConfig |->
        [ Binds         |-> << PathJoin(hostData, serverId) \o DataTarget >>,
          RestartPolicy |-> "unless-stopped",
          Memory        |-> Or(md.memory, Num(DefaultMemory)),
          NetworkMode   |-> Undefined,
          PortBindings  |-> {} ],
      ExposedPorts |-> {} ]

\* BaseContainerConfig binding serverPath, the path inside the manager's
\* container, instead of hostServerPath
BaseContainerConfigServerPath(serverId, md, hostData) ==
    [ Image  |-> BEDROCK_IMAGE,
      name   |-> serverId,
      Labels |-> ("server-id" :> Str(serverId))
                 @@ ("server-name" :> Or(md.name, Str(DefaultServerName))),
      Env    |-> buildContainerEnv(md),
      HostConfig |->
        [ Binds         |-> << PathJoin(DefaultDataDir, serverId) \o DataTarget >>,
          RestartPolicy |-> "unless-stopped",
          Memory        |-> Or(md.memory, Num(DefaultMemory)),
          NetworkMode   |-> Undefined,
          PortBindings  |-> {} ],
      ExposedPorts |-> {} ]

\* the object literal of recreateServers
BaseContainerConfig(serverId, md, hostData) ==
    [ Image  |-> BEDROCK_IMAGE,
      name   |-> serverId,
      Labels |-> ("server-id" :> Str(serverId))
                 @@ ("server-name" :> Or(md.name, Str(DefaultServerName))),
      Env    |-> buildContainerEnv(md),
      HostConfig |->
        [ Binds         |-> << PathJoin(hostData, serverId) \o DataTarget >>,
          RestartPolicy |-> "unless-stopped",
          Memory        |-> Or(md.memory, Num(DefaultMemory)),
          NetworkMode   |-> Undefined,
          PortBindings  |-> {} ],
      ExposedPorts |-> {} ]

applyNetworkConfig(cfg, md) ==
    IF Truthy(md.network) \/ Truthy(DOCKER_NETWORK)
    THEN [cfg EXCEPT !.HostConfig.NetworkMode = Or(md.network, DOCKER_NETWORK)]
    ELSE cfg

\* applyPortConfig allocating the host port after the containers that exist
applyPortConfigNextFree(cfg, md) ==
    LET r == requiresPortMapping(md)
        port == ServicePort + Cardinality(containers)
    IN
    IF r.threw THEN [threw |-> TRUE, config |-> cfg, result |-> Null]
    ELSE IF ~r.value
    THEN [threw  |-> FALSE,
          config |-> [cfg EXCEPT !.ExposedPorts = {ServicePortKey}],
          result |-> Null]
    ELSE [threw  |-> FALSE,
          config |-> [cfg EXCEPT !.HostConfig.PortBindings =
                         {[port |-> ServicePortKey, HostPort |-> Dec(port)]}],
          result |-> Num(port)]

\* applyPortConfig binding the host port on every network
applyPortConfigAlwaysBind(cfg, md) ==
    LET r == requiresPortMapping(md)
        bound == [cfg EXCEPT !.HostConfig.PortBindings =
                     {[port |-> ServicePortKey, HostPort |-> ServiceHostPort]}]
    IN
    IF r.threw THEN [threw |-> TRUE, config |-> cfg, result |-> Null]
    ELSE IF ~r.value
    THEN [threw  |-> FALSE,
          config |-> [bound EXCEPT !.ExposedPorts = {ServicePortKey}],
          result |-> Null]
    ELSE [threw |-> FALSE, config |-> bound, result |-> Num(ServicePort)]

\* applyPortConfig: the completion of the call, with the descriptor as the
\* call leaves it; `result` is the returned host port, Null for none
applyPortConfig(cfg, md) ==
    LET r == requiresPortMapping(md) IN
    IF r.threw THEN [threw |-> TRUE, config |-> cfg, result |-> Null]
    ELSE IF ~r.value
    THEN [threw  |-> FALSE,
          config |-> [cfg EXCEPT !.ExposedPorts = {ServicePortKey}],
          result |-> Null]
    ELSE [threw  |-> FALSE,
          config |-> [cfg EXCEPT !.HostConfig.PortBindings =
                         {[port |-> ServicePortKey, HostPort |-> ServiceHostPort]}],
          result |-> Num(ServicePort)]

\* lines 488-510 of recreateServers: the descriptor of one server
BuildContainerConfig(serverId, md, hostData) ==
    applyPortConfig(applyNetworkConfig(BaseContainerConfig(serverId, md, hostData), md), md)

\* the value of the variables of an iteration outside an iteration
NoConfig == BaseContainerConfig(<<>>, EmptyMeta, <<>>)

(***************************************************************************)
(* The Docker daemon, as the script sees it through dockerode.             *)
(***************************************************************************)
\* a container of the daemon: `label` is Labels['server-id'], `hostPorts`
\* the host ports of its PortBindings, `mountSource` the Source of its
\* /app/minecraft-data mount (<<>> when it has none)
Container(name, label, state, hostPorts, mountSource) ==
    [name |-> name, label |-> label, state |-> state,
     hostPorts |-> hostPorts, mountSource |-> mountSource]

\* the manager's own container
ManagerContainer ==
    Container(ManagerName, Undefined, "running", {}, HostMountSource)

\* a stopped container that mounts /app/minecraft-data
StoppedManagerContainer ==
    Container(OldManagerName, Undefined, "exited", {}, OldMountSource)

\* containers.find(c => c.Labels?.['server-id'] === serverId)
Existing(serverId) == {c \in containers : c.label = Str(serverId)}

\* host ports bound by the running containers
BoundHostPorts == UNION {c.hostPorts : c \in {d \in containers : d.state = "running"}}

(***************************************************************************)
(* docker-entrypoint.sh (lines 1-52), run under `set -e`: a command that   *)
(* fails outside a condition or an `||` list ends the script.              *)
(***************************************************************************)
\* the environment and the data directory
hostVars   == <<DOCKER_NETWORK, ENABLE_SSH, dataDirExists, items, files,
                envBedrockImage>>
\* the manager's cache and its broadcast hub, as the script acts on them
cacheVars == <<serverCache, inspection, clock, getters, returned, invalidatedAt>>
managerVars == <<cacheInvalidations, broadcasts, cacheVars>>
\* the state of docker-entrypoint.sh
shellVars == <<shpc, user, sockPresent, sockGid, groups, DOCKER_GID,
               EXISTING_GROUP, ranAs>>
\* what no statement of recreateServers writes
outsideVars == <<managerVars, other, shellVars>>
daemonVars == <<containers, imagePresent, pullInProgress>>
iterVars   == <<metadata, containerConfig, portResult>>

\* all that recreateServers, the daemon and the manager hold
appVars == <<hostVars, managerVars, other, daemonVars, iterVars, pc, hostDataPath,
             serverDirs, before, idx, successCount, failureCount, outcome>>

\* the group IDs that are the primary group of a user in /etc/passwd:
\* root's and node's
PrimaryGids == {0, 1000}

\* getent group <gid>: the names of the groups with that ID
GroupsOfGid(gid) == {n \in DOMAIN groups : groups[n].gid = gid}

\* delgroup <name> || true: busybox removes the group unless it does not
\* exist or is the primary group of a user; the failure is ignored
delgroup(name) ==
    IF name \in DOMAIN groups /\ groups[name].gid \notin PrimaryGids
    THEN [n \in DOMAIN groups \ {name} |-> groups[n]]
    ELSE groups

\* addgroup -g <gid> <name>: busybox refuses a name or an ID that is in use
addgroupAccepts(db, gid, name) ==
    /\ name \notin DOMAIN db
    /\ \A n \in DOMAIN db : db[n].gid # gid

addgroup(db, gid, name) ==
    [n \in DOMAIN db \cup {name} |->
        IF n = name THEN [gid |-> gid, members |-> {}] ELSE db[n]]

\* line 5: if [ "$(id -u)" -eq 0 ]
TestRoot ==
    /\ shpc = "id"
    /\ shpc' = IF user = "root" THEN "testSocket" ELSE "exec"
    /\ UNCHANGED <<appVars, user, sockPresent, sockGid, groups, DOCKER_GID,
                   EXISTING_GROUP, ranAs>>

\* line 8: if [ -S /var/run/docker.sock ]
TestSocket ==
    /\ shpc = "testSocket"
    /\ shpc' = IF sockPresent THEN "stat" ELSE "suExec"
    /\ UNCHANGED <<appVars, user, sockPresent, sockGid, groups, DOCKER_GID,
                   EXISTING_GROUP, ranAs>>

\* lines 9-12: DOCKER_GID=$(stat -c %g ...); if [ "$DOCKER_GID" != "0" ]
StatSocket ==
    /\ shpc = "stat"
    /\ DOCKER_GID' = sockGid
    /\ shpc' = IF sockGid # 0 THEN "getentGid" ELSE "suExec"
    /\ UNCHANGED <<appVars, user, sockPresent, sockGid, groups, EXISTING_GROUP, ranAs>>

\* line 14: if ! getent group "$DOCKER_GID"
GetentGid ==
    /\ shpc = "getentGid"
    /\ shpc' = IF GroupsOfGid(DOCKER_GID) = {} THEN "getentDocker" ELSE "existing"
    /\ UNCHANGED <<appVars, user, sockPresent, sockGid, groups, DOCKER_GID,
                   EXISTING_GROUP, ranAs>>

\* lines 16-20: if getent group docker; then delgroup docker || true
DelgroupDocker ==
    /\ shpc = "getentDocker"
    /\ groups' = IF "docker" \in DOMAIN groups THEN delgroup("docker") ELSE groups
    /\ shpc' = "addgroupGid"
    /\ UNCHANGED <<appVars, user, sockPresent, sockGid, DOCKER_GID, EXISTING_GROUP, ranAs>>

\* line 23: addgroup -g "$DOCKER_GID" docker
AddgroupGid ==
    /\ shpc = "addgroupGid"
    /\ IF addgroupAccepts(groups, DOCKER_GID, "docker")
       THEN groups' = addgroup(groups, DOCKER_GID, "docker") /\ shpc' = "addNode"
       ELSE groups' = groups /\ shpc' = "failed"
    /\ UNCHANGED <<appVars, user, sockPresent, sockGid, DOCKER_GID, EXISTING_GROUP, ranAs>>

\* lines 26-28: EXISTING_GROUP=$(getent group "$DOCKER_GID" | cut -d: -f1);
\* if [ "$EXISTING_GROUP" != "docker" ]
ExistingGroup ==
    /\ shpc = "existing"
    /\ \E n \in GroupsOfGid(DOCKER_GID) :
          /\ EXISTING_GROUP' = n
          /\ shpc' = IF n # "docker" THEN "delgroupExisting" ELSE "addNode"
    /\ UNCHANGED <<appVars, user, sockPresent, sockGid, groups, DOCKER_GID, ranAs>>

\* line 30: delgroup "$EXISTING_GROUP" || true
DelgroupExisting ==
    /\ shpc = "delgroupExisting"
    /\ groups' = delgroup(EXISTING_GROUP)
    /\ shpc' = "addgroupRenamed"
    /\ UNCHANGED <<appVars, user, sockPresent, sockGid, DOCKER_GID, EXISTING_GROUP, ranAs>>

\* AddgroupRenamed with the failure of addgroup ignored
AddgroupRenamedTolerant ==
    /\ shpc = "addgroupRenamed"
    /\ groups' = IF addgroupAccepts(groups, DOCKER_GID, "docker")
                 THEN addgroup(groups, DOCKER_GID, "docker")
                 ELSE groups
    /\ shpc' = "addNode"
    /\ UNCHANGED <<appVars, user, sockPresent, sockGid, DOCKER_GID, EXISTING_GROUP, ranAs>>

\* line 31: addgroup -g "$DOCKER_GID" docker
AddgroupRenamed ==
    /\ shpc = "addgroupRenamed"
    /\ IF addgroupAccepts(groups, DOCKER_GID, "docker")
       THEN groups' = addgroup(groups, DOCKER_GID, "docker") /\ shpc' = "addNode"
       ELSE groups' = groups /\ shpc' = "failed"
    /\ UNCHANGED <<appVars, user, sockPresent, sockGid, DOCKER_GID, EXISTING_GROUP, ranAs>>

\* line 37: addgroup node docker
AddNode ==
    /\ shpc = "addNode"
    /\ IF "docker" \in DOMAIN groups
       THEN /\ groups' = [groups EXCEPT !["docker"].members = @ \cup {"node"}]
            /\ shpc' = "suExec"
       ELSE groups' = groups /\ shpc' = "failed"
    /\ UNCHANGED <<appVars, user, sockPresent, sockGid, DOCKER_GID, EXISTING_GROUP, ranAs>>

\* SuExec without su-exec: exec "$@"
SuExecOmitted ==
    /\ shpc = "suExec"
    /\ ranAs' = user
    /\ shpc' = "running"
    /\ UNCHANGED <<appVars, user, sockPresent, sockGid, groups, DOCKER_GID, EXISTING_GROUP>>

\* line 47: exec su-exec node "$@"
SuExec ==
    /\ shpc = "suExec"
    /\ ranAs' = "node"
    /\ shpc' = "running"
    /\ UNCHANGED <<appVars, user, sockPresent, sockGid, groups, DOCKER_GID, EXISTING_GROUP>>

\* lines 49-51: exec "$@"
Exec ==
    /\ shpc = "exec"
    /\ ranAs' = user
    /\ shpc' = "running"
    /\ UNCHANGED <<appVars, user, sockPresent, sockGid, groups, DOCKER_GID, EXISTING_GROUP>>

NextEntrypoint ==
    \/ TestRoot
    \/ TestSocket
    \/ StatSocket
    \/ GetentGid
    \/ DelgroupDocker
    \/ AddgroupGid
    \/ ExistingGroup
    \/ DelgroupExisting
    \/ AddgroupRenamed
    \/ AddNode
    \/ SuExec
    \/ Exec

\* /etc/group of the image: root and node, with or without a docker group
\* and a ping group, under several group IDs
BaseGroups ==
    ("root" :> [gid |-> 0, members |-> {"root"}])
        @@ ("node" :> [gid |-> 1000, members |-> {"node"}])

GroupDatabases ==
    {BaseGroups}
    \cup {BaseGroups @@ ("docker" :> [gid |-> g, members |-> m]) :
             g \in {998, 999}, m \in {{}, {"node"}}}
    \cup {BaseGroups @@ ("ping" :> [gid |-> g, members |-> {}]) : g \in {998, 999}}
    \cup {BaseGroups @@ ("docker" :> [gid |-> g, members |-> {}])
                     @@ ("ping" :> [gid |-> 1997 - g, members |-> {}]) :
             g \in {998, 999}}

\* the entrypoint has run as root with no socket, and the application runs
EntrypointDone ==
    /\ shpc = "running"
    /\ user = "root"
    /\ sockPresent = FALSE
    /\ sockGid = 0
    /\ groups = BaseGroups
    /\ DOCKER_GID = 0
    /\ EXISTING_GROUP = ""
    /\ ranAs = "node"

\* the container starts: any user, any socket, any group database
EntrypointStarts ==
    /\ shpc = "id"
    /\ user \in {"root", "node", "app"}
    /\ sockPresent \in BOOLEAN
    /\ sockGid \in {0, 997, 998, 999, 1000}
    /\ groups \in GroupDatabases
    /\ DOCKER_GID = 0
    /\ EXISTING_GROUP = ""
    /\ ranAs = ""

(***************************************************************************)
(* The manager's cache (serverCache): get, invalidate, recompute.  An      *)
(* inspection result is the number of changes the server has gone through, *)
(* so that a later result is a larger number.                              *)
(***************************************************************************)
\* the keys of the cache: server IDs
Keys == {"bedrock-a", "bedrock-b"}
\* the requests that read through the cache at the same time
Clients == {1, 2}
\* 30s TTL
CacheTtl == 30
\* the exploration ends at this time, and after this many changes of a server
MaxClock == 40
MaxChanges == 1

\* CacheEntry: { value, expiresAt }; `present` is false for no entry
NoEntry == [present |-> FALSE, value |-> 0, expiresAt |-> 0]
CacheEntry(value, expiresAt) == [present |-> TRUE, value |-> value, expiresAt |-> expiresAt]

\* a read after expiresAt triggers recomputation
Fresh(entry, time) == entry.present /\ time <= entry.expiresAt

\* a client with no get under way
Idle == [phase |-> "idle", key |-> "", value |-> 0, superseded |-> FALSE, floor |-> 0]
\* the last step was no return of a get
NoGet == [done |-> FALSE, key |-> "", value |-> 0, recomputed |-> FALSE,
          fresh |-> FALSE, cached |-> 0, floor |-> 0]

\* the cache when the manager starts
CacheStarts ==
    /\ serverCache = [k \in Keys |-> NoEntry]
    /\ inspection = [k \in Keys |-> 0]
    /\ clock = 0
    /\ getters = [c \in Clients |-> Idle]
    /\ returned = NoGet
    /\ invalidatedAt = [k \in Keys |-> 0]

(***************************************************************************)
(* Initial states: the environment, the data directory and the daemon      *)
(* before the script is run.                                               *)
(***************************************************************************)
BatchDirs == SubSeq(DirNames, 1, MaxDirs)

Range(s) == {s[i] : i \in 1..Len(s)}

\* no concurrent run is between its existence check and its create
NoServer == <<>>

BlankRun ==
    /\ pc = "start"
    /\ hostDataPath = <<>>
    /\ serverDirs = <<>>
    /\ idx = 0
    /\ successCount = 0
    /\ failureCount = 0
    /\ metadata = EmptyMeta
    /\ containerConfig = NoConfig
    /\ portResult = Null
    /\ outcome = <<>>
    /\ before = <<>>
    /\ cacheInvalidations = {}
    /\ broadcasts = {}
    /\ other = NoServer
    /\ CacheStarts

\* a batch of MaxDirs directories beside another entry, default environment
InitBatch ==
    /\ DOCKER_NETWORK = Null
    /\ ENABLE_SSH = FALSE
    /\ envBedrockImage = ""
    /\ dataDirExists = TRUE
    /\ items = BatchDirs \o <<OtherItem>>
    /\ files \in [Range(BatchDirs) -> {Missing, Corrupt} \cup {Json(m) : m \in BatchRecords}]
    /\ containers = {ManagerContainer}
    /\ imagePresent = FALSE
    /\ pullInProgress = FALSE
    /\ BlankRun

\* one directory holding any metadata record, under any environment
InitSingle ==
    /\ DOCKER_NETWORK \in {Null, Str(NetMinecraftMacvlan), Str(NetMynet)}
    /\ ENABLE_SSH \in BOOLEAN
    /\ envBedrockImage = ""
    /\ dataDirExists = TRUE
    /\ items = <<DirNames[1]>>
    /\ files \in [{DirNames[1]} -> {Json(m) : m \in SingleRecords}]
    /\ containers = {}
    /\ imagePresent = TRUE
    /\ pullInProgress = FALSE
    /\ BlankRun

\* a data directory that does not exist, or holds no server directory
InitEmpty ==
    /\ DOCKER_NETWORK = Null
    /\ ENABLE_SSH = FALSE
    /\ envBedrockImage = ""
    /\ dataDirExists \in BOOLEAN
    /\ items = IF dataDirExists THEN <<OtherItem>> ELSE <<>>
    /\ files = <<>>
    /\ containers = {}
    /\ imagePresent = FALSE
    /\ pullInProgress = FALSE
    /\ BlankRun

\* one directory, with an image reference configured in the environment
InitConfigured ==
    /\ DOCKER_NETWORK = Null
    /\ ENABLE_SSH = FALSE
    /\ envBedrockImage = CustomImage
    /\ dataDirExists = TRUE
    /\ items = <<DirNames[1]>>
    /\ files \in [{DirNames[1]} -> {Json(m) : m \in BatchRecords}]
    /\ containers = {}
    /\ imagePresent = FALSE
    /\ pullInProgress = FALSE
    /\ BlankRun

\* one directory, beside a stopped container that mounts the data directory,
\* with or without the running manager
InitStopped ==
    /\ DOCKER_NETWORK = Null
    /\ ENABLE_SSH = FALSE
    /\ envBedrockImage = ""
    /\ dataDirExists = TRUE
    /\ items = <<DirNames[1]>>
    /\ files \in [{DirNames[1]} -> {Json(m) : m \in BatchRecords}]
    /\ containers \in {{StoppedManagerContainer},
                       {StoppedManagerContainer, ManagerContainer}}
    /\ imagePresent = TRUE
    /\ pullInProgress = FALSE
    /\ BlankRun

Init ==
    /\ InitBatch \/ InitSingle \/ InitEmpty \/ InitConfigured \/ InitStopped
    /\ EntrypointDone

(***************************************************************************)
(* recreateServers.                                                        *)
(***************************************************************************)

serverId == serverDirs[idx]

\* the for loop moves to the next directory, or leaves the loop
NextIteration ==
    /\ metadata' = EmptyMeta
    /\ containerConfig' = NoConfig
    /\ portResult' = Null
    /\ IF idx < Len(serverDirs)
       THEN idx' = idx + 1 /\ pc' = "pathExists"
       ELSE idx' = idx /\ pc' = "summary"

\* Continue, counting the skipped directory as a success
ContinueAsSuccess(printed) ==
    /\ outcome' = [outcome EXCEPT ![idx] = printed]
    /\ successCount' = successCount + 1
    /\ UNCHANGED failureCount
    /\ NextIteration

\* `continue`: the directory is skipped and counted nowhere
Continue(printed) ==
    /\ outcome' = [outcome EXCEPT ![idx] = printed]
    /\ UNCHANGED <<successCount, failureCount>>
    /\ NextIteration

\* Catch, as a catch around the loop instead of inside it: the batch ends
CatchAbort(error) ==
    /\ failureCount' = failureCount + 1
    /\ outcome' = [outcome EXCEPT ![idx] = error]
    /\ UNCHANGED <<successCount, idx, metadata, containerConfig, portResult>>
    /\ pc' = "exit1"

\* the catch of the loop body: count the failure, go on with the next directory
Catch(error) ==
    /\ failureCount' = failureCount + 1
    /\ outcome' = [outcome EXCEPT ![idx] = error]
    /\ UNCHANGED successCount
    /\ NextIteration

\* the catch around the whole function: process.exit(1)
Fatal == pc' = "exit1"

\* if (!await fs.pathExists(DATA_DIR)) process.exit(1)
Start ==
    /\ pc = "start"
    /\ IF dataDirExists THEN pc' = "getHostDataPath" ELSE Fatal
    /\ UNCHANGED <<hostVars, outsideVars, daemonVars, iterVars, hostDataPath, serverDirs, before, idx,
                   successCount, failureCount, outcome>>

\* the Source of the first /app/minecraft-data mount the listing shows
MountSources == {c.mountSource : c \in {d \in containers : d.mountSource # <<>>}}

\* getHostDataPath returning minecraftMount.Destination
getHostDataPathDestination ==
    /\ pc = "getHostDataPath"
    /\ \/ MountSources # {} /\ hostDataPath' = MountDestination
       \/ MountSources = {} /\ hostDataPath' = DefaultDataDir
       \/ hostDataPath' = DefaultDataDir     \* listContainers failed
    /\ pc' = "readdir"
    /\ UNCHANGED <<hostVars, outsideVars, daemonVars, iterVars, serverDirs, before, idx,
                   successCount, failureCount, outcome>>

\* const hostDataPath = await getHostDataPath(): the mount source of a
\* container that mounts /app/minecraft-data, DATA_DIR when there is none or
\* when the listing fails
getHostDataPath ==
    /\ pc = "getHostDataPath"
    /\ \/ \E src \in MountSources : hostDataPath' = src
       \/ MountSources = {} /\ hostDataPath' = DefaultDataDir
       \/ hostDataPath' = DefaultDataDir     \* listContainers failed
    /\ pc' = "readdir"
    /\ UNCHANGED <<hostVars, outsideVars, daemonVars, iterVars, serverDirs, before, idx,
                   successCount, failureCount, outcome>>

\* items.filter(item => item.startsWith('bedrock-'))
FilterBedrock(its) == SelectSeq(its, LAMBDA item : startsWith(item, BedrockPrefix))

\* readdir, the filter, the exit when nothing matches, the counters
Scan ==
    /\ pc = "readdir"
    /\ LET dirs == FilterBedrock(items) IN
       \/ /\ dirs = <<>>
          /\ pc' = "exit0"
          /\ UNCHANGED <<serverDirs, before, idx, outcome>>
       \/ /\ dirs # <<>>
          /\ serverDirs' = dirs
          /\ idx' = 1
          /\ outcome' = [i \in 1..Len(dirs) |-> "pending"]
          /\ before' = [i \in 1..Len(dirs) |-> Existing(dirs[i])]
          /\ pc' = "pathExists"
       \/ /\ Fatal                            \* readdir failed
          /\ UNCHANGED <<serverDirs, before, idx, outcome>>
    /\ UNCHANGED <<hostVars, outsideVars, daemonVars, iterVars, hostDataPath,
                   successCount, failureCount>>

\* if (!await fs.pathExists(metadataPath)) continue
CheckMetadata ==
    /\ pc = "pathExists"
    /\ IF files[serverId].kind = "missing"
       THEN Continue("noMetadata")
       ELSE /\ pc' = "readJson"
            /\ UNCHANGED <<iterVars, idx, successCount, failureCount, outcome>>
    /\ UNCHANGED <<hostVars, outsideVars, daemonVars, hostDataPath, serverDirs, before>>

\* const metadata = await fs.readJson(metadataPath)
ReadMetadata ==
    /\ pc = "readJson"
    /\ IF files[serverId].kind = "corrupt"
       THEN Catch("readError")
       ELSE /\ metadata' = files[serverId].json
            /\ pc' = "list"
            /\ UNCHANGED <<containerConfig, portResult, idx, successCount,
                           failureCount, outcome>>
    /\ UNCHANGED <<hostVars, outsideVars, daemonVars, hostDataPath, serverDirs, before>>

\* lines 488-516, run when no existing container was seen
BuildConfig ==
    LET built == BuildContainerConfig(serverId, metadata, hostDataPath) IN
    IF built.threw
    THEN Catch("typeError")
    ELSE /\ containerConfig' = built.config
         /\ portResult' = built.result
         /\ pc' = "imageInspect"
         /\ UNCHANGED <<metadata, idx, successCount, failureCount, outcome>>

\* the listing and the look for a container labelled with this server ID; a
\* failed listing is logged and the iteration goes on
ListContainers ==
    /\ pc = "list"
    /\ \/ Existing(serverId) # {} /\ Continue("exists")
       \/ Existing(serverId) = {} /\ BuildConfig
       \/ BuildConfig                         \* listContainers failed
    /\ UNCHANGED <<hostVars, outsideVars, daemonVars, hostDataPath, serverDirs, before>>

\* await docker.getImage(BEDROCK_IMAGE).inspect(): any failure leads to the pull
InspectImage ==
    /\ pc = "imageInspect"
    /\ \/ imagePresent /\ pc' = "create"
       \/ pc' = "pull"
    /\ UNCHANGED <<hostVars, outsideVars, daemonVars, iterVars, hostDataPath, serverDirs, before, idx,
                   successCount, failureCount, outcome>>

\* await docker.pull(BEDROCK_IMAGE): dockerode resolves the promise with the
\* progress stream as soon as the daemon has answered the request; the end of
\* the pull is the end of that stream, which the script does not wait for
PullImage ==
    /\ pc = "pull"
    /\ \/ /\ pullInProgress' = TRUE
          /\ pc' = "create"
          /\ UNCHANGED <<containers, imagePresent, iterVars, idx, successCount,
                         failureCount, outcome>>
       \/ /\ Catch("dockerError")
          /\ UNCHANGED daemonVars
    /\ UNCHANGED <<hostVars, outsideVars, hostDataPath, serverDirs, before>>

\* the container the daemon makes of a descriptor
Created(cfg) ==
    Container(cfg.name, cfg.Labels["server-id"], "created",
              {b.HostPort : b \in cfg.HostConfig.PortBindings}, <<>>)

\* the daemon accepts a create only for a local image and a free name
CanCreate(cfg) ==
    /\ imagePresent
    /\ \A c \in containers : c.name # cfg.name

\* const container = await docker.createContainer(containerConfig)
CreateContainer ==
    /\ pc = "create"
    /\ \/ /\ CanCreate(containerConfig)
          /\ containers' = containers \cup {Created(containerConfig)}
          /\ pc' = "start_"
          /\ UNCHANGED <<iterVars, idx, successCount, failureCount, outcome>>
       \/ /\ Catch("dockerError")
          /\ UNCHANGED containers
    /\ UNCHANGED <<hostVars, outsideVars, imagePresent, pullInProgress, hostDataPath, serverDirs, before>>

\* the container created in this iteration
Handle == CHOOSE c \in containers : c.name = containerConfig.name

\* the daemon starts a container only when its host ports are free
CanStart(c) == c.hostPorts \cap BoundHostPorts = {}

\* StartContainer without the start: the container stays as it was created
StartContainerOmitted ==
    /\ pc = "start_"
    /\ pc' = "inspect"
    /\ UNCHANGED <<hostVars, outsideVars, daemonVars, iterVars, hostDataPath,
                   serverDirs, before, idx, successCount, failureCount, outcome>>

\* await container.start()
StartContainer ==
    /\ pc = "start_"
    /\ \/ /\ CanStart(Handle)
          /\ containers' = (containers \ {Handle})
                               \cup {[Handle EXCEPT !.state = "running"]}
          /\ pc' = "inspect"
          /\ UNCHANGED <<iterVars, idx, successCount, failureCount, outcome>>
       \/ /\ Catch("dockerError")
          /\ UNCHANGED containers
    /\ UNCHANGED <<hostVars, outsideVars, imagePresent, pullInProgress, hostDataPath, serverDirs, before>>

\* await container.inspect(), the report, successCount++
InspectContainer ==
    /\ pc = "inspect"
    /\ \/ /\ successCount' = successCount + 1
          /\ outcome' = [outcome EXCEPT ![idx] = "success"]
          /\ UNCHANGED failureCount
          /\ NextIteration
       \/ Catch("dockerError")
    /\ UNCHANGED <<hostVars, outsideVars, daemonVars, hostDataPath, serverDirs, before>>

\* the summary lines
Summary ==
    /\ pc = "summary"
    /\ pc' = "done"
    /\ UNCHANGED <<hostVars, outsideVars, daemonVars, iterVars, hostDataPath, serverDirs, before, idx,
                   successCount, failureCount, outcome>>

(***************************************************************************)
(* The environment of the script.                                          *)
(***************************************************************************)
\* the daemon finishes the pull it was asked for
DaemonPullComplete ==
    /\ pullInProgress
    /\ imagePresent' = TRUE
    /\ pullInProgress' = FALSE
    /\ UNCHANGED <<hostVars, outsideVars, containers, iterVars, pc, hostDataPath,
                   serverDirs, before, idx, successCount, failureCount, outcome>>

\* the awaits of recreateServers on a call of the Docker API
ApiAwaits == {"getHostDataPath", "list", "imageInspect", "pull", "create",
              "start_", "inspect"}

\* the daemon never answers the call the script awaits: the client is made
\* by new Docker(dockerConfig) with no timeout and no await is raced against
\* a timer, so the promise stays pending
CallHangs ==
    /\ pc \in ApiAwaits
    /\ pc' = "hung"
    /\ UNCHANGED <<hostVars, outsideVars, daemonVars, iterVars, hostDataPath,
                   serverDirs, before, idx, successCount, failureCount, outcome>>

\* after a run has ended, the operator or the manager stops a server's
\* container; the listing of the next run ({ all: true }) shows it as exited
StopContainer ==
    /\ pc \in {"done", "idle"}
    /\ pc' = "idle"
    /\ \E c \in {d \in containers : d.label # Undefined /\ d.state = "running"} :
          containers' = (containers \ {c}) \cup {[c EXCEPT !.state = "exited"]}
    /\ UNCHANGED <<hostVars, outsideVars, imagePresent, pullInProgress, iterVars,
                   hostDataPath, serverDirs, before, idx, successCount,
                   failureCount, outcome>>

\* the script is run again, as a new process under the same environment
Rerun ==
    /\ pc \in {"done", "exit0", "exit1", "idle"}
    /\ pc' = "start"
    /\ hostDataPath' = <<>>
    /\ serverDirs' = <<>>
    /\ idx' = 0
    /\ successCount' = 0
    /\ failureCount' = 0
    /\ outcome' = <<>>
    /\ before' = <<>>
    /\ UNCHANGED <<hostVars, outsideVars, daemonVars, iterVars>>

Next ==
    \/ Start
    \/ getHostDataPath
    \/ Scan
    \/ CheckMetadata
    \/ ReadMetadata
    \/ ListContainers
    \/ InspectImage
    \/ PullImage
    \/ CreateContainer
    \/ StartContainer
    \/ InspectContainer
    \/ Summary
    \/ DaemonPullComplete
    \/ CallHangs
    \/ StopContainer
    \/ Rerun

Spec == Init /\ [][Next]_vars

(***************************************************************************)
(* Two runs at once: a second process runs the same script on the same     *)
(* data directory and daemon.  Of the second run, the steps that matter to *)
(* the first are its existence check and its createContainer.              *)
(***************************************************************************)
\* the second run's listing shows no container labelled d (lines 476-483),
\* and its descriptor is built (lines 488-510)
OtherListContainers ==
    /\ other = NoServer
    /\ \E d \in {e \in DOMAIN files : files[e].kind = "json"} :
          /\ Existing(d) = {}
          /\ ~BuildContainerConfig(d, files[d].json, DefaultDataDir).threw
          /\ other' = d
    /\ UNCHANGED <<hostVars, managerVars, shellVars, daemonVars, iterVars, pc, hostDataPath,
                   serverDirs, before, idx, successCount, failureCount, outcome>>

\* the second run's docker.createContainer (line 527); a rejected create
\* ends its iteration
OtherCreateContainer ==
    /\ other # NoServer
    /\ LET cfg == BuildContainerConfig(other, files[other].json, DefaultDataDir).config IN
       IF CanCreate(cfg)
       THEN containers' = containers \cup {Created(cfg)}
       ELSE UNCHANGED containers
    /\ other' = NoServer
    /\ UNCHANGED <<hostVars, managerVars, shellVars, imagePresent, pullInProgress,
                   iterVars, pc, hostDataPath, serverDirs, before, idx, successCount,
                   failureCount, outcome>>

\* one directory with a valid record, no container of it, the image present
InitConcurrent ==
    /\ DOCKER_NETWORK = Null
    /\ ENABLE_SSH = FALSE
    /\ envBedrockImage = ""
    /\ dataDirExists = TRUE
    /\ items = <<DirNames[1], OtherItem>>
    /\ files \in [{DirNames[1]} -> {Json(m) : m \in BatchRecords}]
    /\ containers = {ManagerContainer}
    /\ imagePresent \in BOOLEAN
    /\ pullInProgress = FALSE
    /\ BlankRun
    /\ EntrypointDone

NextConcurrent == Next \/ OtherListContainers \/ OtherCreateContainer

SpecConcurrent == InitConcurrent /\ [][NextConcurrent]_vars

(***************************************************************************)
(* The start of the manager's container: docker-entrypoint.sh alone, before *)
(* any run of recreateServers.                                             *)
(***************************************************************************)
InitEntrypoint == InitEmpty /\ EntrypointStarts

SpecEntrypoint == InitEntrypoint /\ [][NextEntrypoint]_vars

(***************************************************************************)
(* The cache at work: clients read through it while servers are written to *)
(* and change by themselves, and time passes.                              *)
(***************************************************************************)
\* all but the cache
nonCacheVars == <<hostVars, cacheInvalidations, broadcasts, other, shellVars,
                  daemonVars, iterVars, pc, hostDataPath, serverDirs, before, idx,
                  successCount, failureCount, outcome>>

\* what a get that ran recompute hands to its caller
Recomputed(g) ==
    [done |-> TRUE, key |-> g.key, value |-> g.value, recomputed |-> TRUE,
     fresh |-> FALSE, cached |-> 0, floor |-> g.floor]

\* get(namespace, key, ttl, recompute): an entry within its TTL is returned;
\* on a miss or an expired entry recompute is called, which inspects the
\* server.  `fresh`, `cached` and `floor` keep what the get found when it
\* was issued.
get(c, k) ==
    /\ getters[c].phase = "idle"
    /\ IF Fresh(serverCache[k], clock)
       THEN /\ returned' = [done |-> TRUE, key |-> k, value |-> serverCache[k].value,
                            recomputed |-> FALSE,
                            fresh |-> serverCache[k].present /\ clock <= serverCache[k].expiresAt,
                            cached |-> serverCache[k].value,
                            floor |-> invalidatedAt[k]]
            /\ UNCHANGED getters
       ELSE /\ getters' = [getters EXCEPT ![c] =
                              [phase |-> "recomputing", key |-> k, value |-> inspection[k],
                               superseded |-> FALSE, floor |-> invalidatedAt[k]]]
            /\ returned' = NoGet
    /\ UNCHANGED <<nonCacheVars, serverCache, inspection, clock, invalidatedAt>>

\* recompute, storing its result whatever has happened to the key meanwhile
recomputeStoresSuperseded(c) ==
    /\ getters[c].phase = "recomputing"
    /\ serverCache' = [serverCache EXCEPT ![getters[c].key] =
                          CacheEntry(getters[c].value, clock + CacheTtl)]
    /\ returned' = Recomputed(getters[c])
    /\ getters' = [getters EXCEPT ![c] = Idle]
    /\ UNCHANGED <<nonCacheVars, inspection, clock, invalidatedAt>>

\* recompute has its result: it repopulates the entry, unless the key was
\* invalidated while it ran (an invalidate is visible to every later get),
\* and the get returns
recompute(c) ==
    /\ getters[c].phase = "recomputing"
    /\ serverCache' = IF getters[c].superseded
                      THEN serverCache
                      ELSE [serverCache EXCEPT ![getters[c].key] =
                               CacheEntry(getters[c].value, clock + CacheTtl)]
    /\ returned' = Recomputed(getters[c])
    /\ getters' = [getters EXCEPT ![c] = Idle]
    /\ UNCHANGED <<nonCacheVars, inspection, clock, invalidatedAt>>

\* recompute fails: the failure goes to the caller, nothing is cached
recomputeFails(c) ==
    /\ getters[c].phase = "recomputing"
    /\ getters' = [getters EXCEPT ![c] = Idle]
    /\ returned' = NoGet
    /\ UNCHANGED <<nonCacheVars, serverCache, inspection, clock, invalidatedAt>>

\* the entry of k is dropped, and so is what a recompute under way will bring
Invalidated(k) ==
    /\ serverCache' = [serverCache EXCEPT ![k] = NoEntry]
    /\ getters' = [c \in Clients |->
                      IF getters[c].phase = "recomputing" /\ getters[c].key = k
                      THEN [getters[c] EXCEPT !.superseded = TRUE]
                      ELSE getters[c]]
    /\ invalidatedAt' = [invalidatedAt EXCEPT ![k] = inspection'[k]]
    /\ returned' = NoGet

\* invalidate(namespace, key)
invalidate(k) ==
    /\ UNCHANGED inspection
    /\ Invalidated(k)
    /\ UNCHANGED <<nonCacheVars, clock>>

\* a write operation on a server: the server changes and its key is
\* invalidated before the operation returns
writeOperation(k) ==
    /\ inspection[k] < MaxChanges
    /\ inspection' = [inspection EXCEPT ![k] = @ + 1]
    /\ Invalidated(k)
    /\ UNCHANGED <<nonCacheVars, clock>>

\* a server changes by itself (its container exits): nothing is invalidated
serverChanges(k) ==
    /\ inspection[k] < MaxChanges
    /\ inspection' = [inspection EXCEPT ![k] = @ + 1]
    /\ returned' = NoGet
    /\ UNCHANGED <<nonCacheVars, serverCache, clock, getters, invalidatedAt>>

\* twenty seconds pass
Tick ==
    /\ clock < MaxClock
    /\ clock' = clock + 20
    /\ returned' = NoGet
    /\ UNCHANGED <<nonCacheVars, serverCache, inspection, getters, invalidatedAt>>

NextCache ==
    \/ \E c \in Clients, k \in Keys : get(c, k)
    \/ \E c \in Clients : recompute(c)
    \/ \E c \in Clients : recomputeFails(c)
    \/ \E k \in Keys : invalidate(k)
    \/ \E k \in Keys : writeOperation(k)
    \/ \E k \in Keys : serverChanges(k)
    \/ Tick

\* the manager starts with an empty cache
InitCache == InitEmpty /\ EntrypointDone

SpecCache == InitCache /\ [][NextCache]_vars

(***************************************************************************)
(* Vocabulary of the properties.                                           *)
(***************************************************************************)
\* what the catch of the loop body prints
Errors == {"readError", "typeError", "dockerError"}
\* the awaits of an iteration that follow the build of the descriptor
AfterBuild == {"imageInspect", "pull", "create", "start_", "inspect"}
\* the loop has been left
LoopDone == pc \in {"summary", "done", "idle"}

Dirs == 1..Len(serverDirs)
Count(S) == Cardinality(S)
\* N, and M: the directories whose metadata.json cannot be parsed
NDirs == Len(serverDirs)
MCorrupt == Count({i \in Dirs : files[serverDirs[i]].kind = "corrupt"})
With(kinds) == {i \in DOMAIN outcome : outcome[i] \in kinds}

(***************************************************************************)
(* C1. Idempotent create: a server ID never has two containers, and a      *)
(* server whose container exists is reported "already exists": its         *)
(* iteration never goes past the existence check, so no createContainer    *)
(* call is issued for it and it is not counted as a failure.               *)
(***************************************************************************)
Orig_C1 ==
    /\ \A i \in Dirs : Count(Existing(serverDirs[i])) <= 1
    /\ pc \in {"imageInspect", "pull", "create"} => Existing(serverId) = {}

Orig_C3 ==
    pc = "done" => successCount = NDirs - MCorrupt /\ failureCount = MCorrupt

(***************************************************************************)
(* C3, amended: the batch visits all N directories and counts each of the  *)
(* M corrupted ones as a failure; failureCount = M + F, where F counts the *)
(* directories with readable metadata whose processing raised an error,    *)
(* and successCount = N - M - F - K, where K counts the directories        *)
(* skipped for a missing metadata.json or an existing container.           *)
(***************************************************************************)
Thm_C3 ==
    pc = "done" =>
        /\ \A i \in Dirs : outcome[i] # "pending"
        /\ \A i \in Dirs :
              (files[serverDirs[i]].kind = "corrupt") <=> (outcome[i] = "readError")
        /\ failureCount = MCorrupt + Count(With({"typeError", "dockerError"}))
        /\ successCount = NDirs - failureCount - Count(With({"noMetadata", "exists"}))

\* a batch that ended with a corrupted directory, a skipped one and no success
Wit_C3 ==
    /\ pc = "done"
    /\ MCorrupt = 1
    /\ failureCount = 1
    /\ Count(With({"noMetadata", "exists"})) = 1
    /\ successCount = NDirs - 2

(***************************************************************************)
(* The network policy as the specification words it.                       *)
(***************************************************************************)
\* the same letter, whatever the case
SameLetter(a, b) ==
    \/ a = b
    \/ {a, b} \in { {"a", "A"}, {"c", "C"}, {"i", "I"}, {"l", "L"},
                    {"m", "M"}, {"n", "N"}, {"p", "P"}, {"v", "V"} }

\* `word` occurs in s at some position, compared case-insensitively
Holds(s, word) ==
    \E i \in 1..Len(s) :
        /\ i + Len(word) - 1 <= Len(s)
        /\ \A k \in 1..Len(word) : SameLetter(s[i + k - 1], word[k])

\* the value names a network on which containers are directly addressable
DirectlyAddressable(v) ==
    /\ v.type = "string"
    /\ \/ Holds(v.str, <<"m", "a", "c", "v", "l", "a", "n">>)
       \/ Holds(v.str, <<"i", "p", "v", "l", "a", "n">>)

\* metadata.network when set, else the process-wide default when set, else none
EffectiveNetwork(md) ==
    IF Truthy(md.network) THEN md.network
    ELSE IF Truthy(DOCKER_NETWORK) THEN DOCKER_NETWORK
    ELSE Undefined

\* the metadata records on disk
Records == {files[d].json : d \in {e \in DOMAIN files : files[e].kind = "json"}}

\* the single binding of 19132/udp to a host port
Binding(hostPort) ==
    {[port |-> <<"1", "9", "1", "3", "2", "/", "u", "d", "p">>, HostPort |-> hostPort]}

(***************************************************************************)
(* C4. requiresPortMapping is false exactly when the effective network     *)
(* name holds "macvlan" or "ipvlan", in any case; it is true for every     *)
(* other name and for an empty or absent network.                          *)
(***************************************************************************)
Thm_C4 ==
    /\ \A md \in Records :
          EffectiveNetwork(md).type \in {"string", "undefined"} =>
              requiresPortMapping(md) =
                  [threw |-> FALSE, value |-> ~DirectlyAddressable(EffectiveNetwork(md))]
    /\ pc \in AfterBuild =>
          ((portResult = Null) <=> DirectlyAddressable(EffectiveNetwork(metadata)))

\* a descriptor built without port mapping for a name in another case
Wit_C4 ==
    /\ pc = "imageInspect"
    /\ metadata.network = Str(<<"l", "a", "n", "-", "I", "p", "V", "l", "a", "n", "-", "2">>)
    /\ portResult = Null

(***************************************************************************)
(* C5. Effective network precedence: the descriptor's NetworkMode is       *)
(* metadata.network when set, else DOCKER_NETWORK when set, else absent    *)
(* (Docker's default bridge); the port policy is decided on that same      *)
(* value; with neither set the descriptor keeps the default network and    *)
(* binds 19132/udp to host port 19132.                                     *)
(***************************************************************************)
Thm_C5 ==
    /\ \A md \in Records :
          Truthy(PolicyNetwork(md)) \/ Truthy(EffectiveNetwork(md)) =>
              PolicyNetwork(md) = EffectiveNetwork(md)
    /\ pc \in AfterBuild =>
          /\ containerConfig.HostConfig.NetworkMode = EffectiveNetwork(metadata)
          /\ (portResult = Null)
                <=> DirectlyAddressable(containerConfig.HostConfig.NetworkMode)
          /\ EffectiveNetwork(metadata) = Undefined =>
                /\ portResult = Num(19132)
                /\ containerConfig.HostConfig.PortBindings
                       = Binding(<<"1", "9", "1", "3", "2">>)

\* a descriptor built from a metadata network that differs from the default
Wit_C5 ==
    /\ pc = "imageInspect"
    /\ DOCKER_NETWORK = Str(NetMinecraftMacvlan)
    /\ metadata.network = Str(NetMynet)
    /\ containerConfig.HostConfig.NetworkMode = Str(NetMynet)
    /\ portResult # Null

(***************************************************************************)
(* C6. When port mapping is required, 19132/udp is bound to the port       *)
(* stored in the metadata, and to 19132 only when none is stored.          *)
(***************************************************************************)
Orig_C6 ==
    pc \in AfterBuild /\ portResult # Null =>
        containerConfig.HostConfig.PortBindings =
            Binding(IF metadata.port.type = "number"
                    THEN Dec(metadata.port.num)
                    ELSE <<"1", "9", "1", "3", "2">>)

(***************************************************************************)
(* C7. When port mapping is not required, the descriptor exposes 19132/udp *)
(* and holds no host port binding, no host port is reported, and the       *)
(* container made of it binds no host port.                                *)
(***************************************************************************)
Thm_C7 ==
    pc \in AfterBuild /\ DirectlyAddressable(EffectiveNetwork(metadata)) =>
        /\ containerConfig.ExposedPorts = {<<"1", "9", "1", "3", "2", "/", "u", "d", "p">>}
        /\ containerConfig.HostConfig.PortBindings = {}
        /\ containerConfig.HostConfig.NetworkMode = EffectiveNetwork(metadata)
        /\ portResult = Null
        /\ pc \in {"start_", "inspect"} =>
              \A c \in Existing(serverId) : c.hostPorts = {}

\* a container created on minecraft-macvlan
Wit_C7 ==
    /\ pc = "start_"
    /\ metadata.network = Str(NetMinecraftMacvlan)
    /\ containerConfig.HostConfig.NetworkMode = Str(NetMinecraftMacvlan)
    /\ Existing(serverId) # {}

(***************************************************************************)
(* C8. The network policy is total: whatever JSON value the network field  *)
(* holds, requiresPortMapping returns a boolean and raises nothing, and    *)
(* every value that is not directly addressable yields true.               *)
(***************************************************************************)
Orig_C8 ==
    /\ \A md \in Records :
          requiresPortMapping(md) =
              [threw |-> FALSE, value |-> ~DirectlyAddressable(EffectiveNetwork(md))]
    /\ \A i \in DOMAIN outcome : outcome[i] # "typeError"

Orig_C10 == pc = "create" => imagePresent /\ ~pullInProgress

(***************************************************************************)
(* The manager's cache and broadcast hub.                                  *)
(***************************************************************************)
\* the directories of this run whose container the script reported as
\* created and started
Reported == {i \in DOMAIN outcome : outcome[i] = "success"}

(***************************************************************************)
(* C11. Every create and start the reconciliation reports as a success has *)
(* been preceded by the invalidation of the server's cache entry and by    *)
(* the publication of a broadcast event for the server.                    *)
(***************************************************************************)
Orig_C11 ==
    \A i \in Reported :
        /\ serverDirs[i] \in cacheInvalidations
        /\ serverDirs[i] \in broadcasts

(***************************************************************************)
(* C12. A failed transition leaves the server in its prior observed state  *)
(* and is reported: every directory counted as a failure has the           *)
(* containers it had when the run began (none, when it had none), and the  *)
(* failure count holds every failure.                                      *)
(***************************************************************************)
Orig_C12 ==
    /\ \A i \in With(Errors) : Existing(serverDirs[i]) = before[i]
    /\ failureCount = Count(With(Errors))

(***************************************************************************)
(* C13. Reconciliation goal.  As claimed: a run that ends with no failure  *)
(* leaves every directory with a valid metadata record with a running      *)
(* container, whatever the state of its container before the run.          *)
(***************************************************************************)
\* the directories of this run that hold a valid metadata record
Valid == {i \in Dirs : files[serverDirs[i]].kind = "json"}

Orig_C13 ==
    pc = "done" /\ failureCount = 0 =>
        \A i \in Valid : \E c \in Existing(serverDirs[i]) : c.state = "running"

(***************************************************************************)
(* C13, amended: a run that ends with no failure leaves every directory    *)
(* with a valid metadata record with a container; the container of a       *)
(* directory that had none before the run is running, and the container of *)
(* a directory that had one is left as it was, running or not.             *)
(***************************************************************************)
Thm_C13 ==
    pc = "done" /\ failureCount = 0 =>
        \A i \in Valid :
            /\ Existing(serverDirs[i]) # {}
            /\ before[i] = {} => \A c \in Existing(serverDirs[i]) : c.state = "running"
            /\ before[i] # {} => Existing(serverDirs[i]) = before[i]

\* a run without failure that made and started the container of one directory
\* and left the stopped container of another as it was
Wit_C13 ==
    /\ pc = "done"
    /\ failureCount = 0
    /\ \E i, j \in Valid :
          /\ before[i] = {}
          /\ \E c \in Existing(serverDirs[i]) : c.state = "running"
          /\ before[j] # {}
          /\ \A c \in Existing(serverDirs[j]) : c.state = "exited"

(***************************************************************************)
(* C14. Bounded waiting: a call of the Docker API that never responds does *)
(* not stall the batch; while the script waits on such a call a step of    *)
(* the script (the expiry of the call's timeout) remains possible.         *)
(***************************************************************************)
\* the steps of recreateServers
BatchStep ==
    \/ Start \/ getHostDataPath \/ Scan \/ CheckMetadata \/ ReadMetadata
    \/ ListContainers \/ InspectImage \/ PullImage \/ CreateContainer
    \/ StartContainer \/ InspectContainer \/ Summary

Orig_C14 == pc = "hung" => ENABLED BatchStep

(***************************************************************************)
(* C15. Per-ID serialization: two runs never both pass the existence check *)
(* for a server ID and both invoke createContainer for it; while the       *)
(* script is at its createContainer for an ID, no other run stands between *)
(* its own existence check and its own createContainer for that ID.        *)
(***************************************************************************)
Orig_C15 == ~(pc = "create" /\ other = serverId)

(***************************************************************************)
(* C16. Memory limit bound: the descriptor passed to createContainer has a *)
(* Memory from 256 MiB to 32 GiB, and the default of 2 GiB when the        *)
(* metadata holds no memory value.                                         *)
(***************************************************************************)
Orig_C16 ==
    pc = "create" =>
        LET Memory == containerConfig.HostConfig.Memory IN
        /\ Memory.type = "number"
        /\ Memory.num >= MinMemory
        /\ Memory.num <= MaxMemory
        /\ metadata.memory = Undefined => Memory = Num(DefaultMemory)

(***************************************************************************)
(* C17. No host port conflict: no two containers made for server           *)
(* directories are bound to the same host port.                            *)
(***************************************************************************)
\* the containers that carry a server-id label
ServerContainers == {c \in containers : c.label # Undefined}

Orig_C17 ==
    \A c1, c2 \in ServerContainers :
        c1 # c2 => c1.hostPorts \cap c2.hostPorts = {}

(***************************************************************************)
(* C18. Configurable image: the Image of every descriptor is the reference *)
(* set in the environment variable BEDROCK_IMAGE when one is set, and      *)
(* itzg/minecraft-bedrock-server when none is.                             *)
(***************************************************************************)
Orig_C18 ==
    pc \in AfterBuild =>
        containerConfig.Image = IF envBedrockImage # ""
                                THEN envBedrockImage
                                ELSE "itzg/minecraft-bedrock-server"


(***************************************************************************)
(* The entrypoint.                                                         *)
(***************************************************************************)
\* the entrypoint has executed the application command
CommandExecuted == shpc = "running"

\* C19: when the entrypoint starts as root with the Docker socket mounted
\* and the socket's group ID is not 0, then whatever the group database was,
\* when the application command is executed a group named docker with the
\* socket's group ID exists and node is a member of it
Thm_C19 ==
    CommandExecuted /\ user = "root" /\ sockPresent /\ sockGid # 0 =>
        /\ "docker" \in DOMAIN groups
        /\ groups["docker"].gid = sockGid
        /\ "node" \in groups["docker"].members

\* the command runs after the group that held the socket's ID was replaced
Wit_C19 ==
    /\ CommandExecuted
    /\ user = "root" /\ sockPresent /\ sockGid # 0
    /\ EXISTING_GROUP = "ping"
    /\ "ping" \notin DOMAIN groups

\* C20: the application command is never executed as root: started with
\* UID 0, the entrypoint executes it as node, after the group setup; started
\* as another user, it executes it as that user; before that, it runs nothing
Thm_C20 ==
    /\ CommandExecuted =>
          /\ ranAs # "root"
          /\ user = "root" => ranAs = "node"
          /\ user # "root" => ranAs = user
    /\ ~CommandExecuted => ranAs = ""

\* started as root, the command runs as node, a member of the new group
Wit_C20 ==
    /\ CommandExecuted
    /\ user = "root" /\ ranAs = "node"
    /\ DOCKER_GID = 997
    /\ "docker" \in DOMAIN groups /\ "node" \in groups["docker"].members


Orig_C22 ==
    /\ pc = "pathExists" /\ idx > 1 => ~pullInProgress
    /\ pc = "pull" => ~pullInProgress

(***************************************************************************)
(* C23. Host data root.  As claimed: the data root of a batch is the       *)
(* Source of the /app/minecraft-data mount of a running container when     *)
(* there is one, and DATA_DIR otherwise.                                   *)
(***************************************************************************)
\* the Source of the /app/minecraft-data mount of the running containers
RunningMountSources ==
    {c.mountSource : c \in {d \in containers : d.mountSource # <<>> /\ d.state = "running"}}

Orig_C23 ==
    hostDataPath # <<>> =>
        /\ hostDataPath \in RunningMountSources \cup {DefaultDataDir}
        /\ RunningMountSources = {} => hostDataPath = DefaultDataDir

(***************************************************************************)
(* C23, amended: the data root is resolved once per batch, before any      *)
(* directory is processed, and every descriptor of the batch is built on   *)
(* it; it is the Source of the /app/minecraft-data mount of a container    *)
(* the listing shows, running or not, or DATA_DIR, and DATA_DIR when no    *)
(* container has such a mount; a failed listing yields DATA_DIR and the    *)
(* batch goes on to read the directory.                                    *)
(***************************************************************************)
ResolvedC23 ==
    /\ pc \in {"start", "getHostDataPath"} => hostDataPath = <<>> /\ idx = 0
    /\ idx >= 1 => hostDataPath # <<>>
    /\ hostDataPath # <<>> =>
          /\ hostDataPath \in MountSources \cup {DefaultDataDir}
          /\ MountSources = {} => hostDataPath = DefaultDataDir
    /\ pc \in AfterBuild =>
          containerConfig.HostConfig.Binds
              = << hostDataPath \o <<"/">> \o serverDirs[idx] \o <<":", "/", "d", "a", "t", "a">> >>

OnceC23 ==
    /\ pc = "getHostDataPath" /\ pc' \notin {pc, "hung"} =>
          pc' = "readdir" /\ hostDataPath' # <<>>
    /\ hostDataPath # <<>> /\ pc' # "start" => hostDataPath' = hostDataPath

Thm_C23 == []ResolvedC23 /\ [][OnceC23]_vars

\* a descriptor built on the mount source of a stopped container, while no
\* running container mounts the data directory
Wit_C23 ==
    /\ pc = "create"
    /\ hostDataPath = OldMountSource
    /\ RunningMountSources = {}

(***************************************************************************)
(* C24. Container environment: for every metadata record, and in every     *)
(* descriptor built, the environment holds EULA=TRUE, VERSION= followed by *)
(* the version of the record, or by LATEST when the record has none, and   *)
(* SERVER_NAME= followed by the name of the record, or by Bedrock Server   *)
(* when it has none; it holds ENABLE_SSH=TRUE exactly when the SSH toggle  *)
(* is on, and nothing else.                                                *)
(***************************************************************************)
\* the field is absent from the record, or empty
Absent(v) == v \in {Undefined, Null, Str(<<>>)}

EnvAsStated(md) ==
    { <<"E", "U", "L", "A", "=", "T", "R", "U", "E">>,
      <<"V", "E", "R", "S", "I", "O", "N", "=">>
          \o (IF Absent(md.version) THEN <<"L", "A", "T", "E", "S", "T">> ELSE md.version.str),
      <<"S", "E", "R", "V", "E", "R", "_", "N", "A", "M", "E", "=">>
          \o (IF Absent(md.name)
              THEN <<"B", "e", "d", "r", "o", "c", "k", " ", "S", "e", "r", "v", "e", "r">>
              ELSE md.name.str) }
    \cup (IF ENABLE_SSH
          THEN { <<"E", "N", "A", "B", "L", "E", "_", "S", "S", "H", "=", "T", "R", "U", "E">> }
          ELSE {})

Thm_C24 ==
    /\ \A md \in Records : Range(buildContainerEnv(md)) = EnvAsStated(md)
    /\ pc \in AfterBuild =>
          /\ Range(containerConfig.Env) = EnvAsStated(metadata)
          /\ Len(containerConfig.Env) = IF ENABLE_SSH THEN 4 ELSE 3

\* a descriptor with the SSH flag, a stored name and the default version
Wit_C24 ==
    /\ pc = "create"
    /\ ENABLE_SSH
    /\ metadata.version = Undefined
    /\ metadata.name = Str(NameSurvival)
    /\ Len(containerConfig.Env) = 4

(***************************************************************************)
(* C25. Identity of created containers: every descriptor has the server ID *)
(* as its name and as its server-id label, and the display name of the     *)
(* metadata record (Bedrock Server when it has none) as its server-name    *)
(* label; after any sequence of runs every container that carries a        *)
(* server-id label is named by it, belongs to exactly one directory, and   *)
(* no two containers carry the same server-id label.                       *)
(***************************************************************************)
Thm_C25 ==
    /\ pc \in AfterBuild =>
          /\ containerConfig.name = serverDirs[idx]
          /\ DOMAIN containerConfig.Labels = {"server-id", "server-name"}
          /\ containerConfig.Labels["server-id"] = Str(serverDirs[idx])
          /\ containerConfig.Labels["server-name"] =
                IF Absent(metadata.name)
                THEN Str(<<"B", "e", "d", "r", "o", "c", "k", " ", "S", "e", "r", "v", "e", "r">>)
                ELSE metadata.name
    /\ \A c \in ServerContainers :
          /\ c.label = Str(c.name)
          /\ Cardinality({d \in DOMAIN files : c.label = Str(d)}) = 1
    /\ \A c1, c2 \in ServerContainers : c1.label = c2.label => c1 = c2

\* a later run whose listing failed asks for a second container of a
\* directory, which the daemon refuses, beside the container of another
Wit_C25 ==
    /\ pc = "done"
    /\ Cardinality(ServerContainers) = 2
    /\ \E i \in Dirs : outcome[i] = "dockerError" /\ before[i] # {}

(***************************************************************************)
(* C26. Data mount: every descriptor has exactly one bind; its target is   *)
(* /data and its source is the directory named by the server ID of the     *)
(* iteration, under the host data root of the batch, so that it is the     *)
(* data directory of no other server.                                      *)
(***************************************************************************)
\* the last position of character ch in s, 0 when s does not hold it
LastIndexOf(s, ch) ==
    IF \E i \in 1..Len(s) : s[i] = ch
    THEN CHOOSE i \in 1..Len(s) : s[i] = ch /\ \A j \in (i + 1)..Len(s) : s[j] # ch
    ELSE 0

\* source:target, as the daemon splits a bind
BindSource(bind) == SubSeq(bind, 1, LastIndexOf(bind, ":") - 1)
BindTarget(bind) == SubSeq(bind, LastIndexOf(bind, ":") + 1, Len(bind))
\* the directory part and the last component of a path
Dirname(path) == SubSeq(path, 1, LastIndexOf(path, "/") - 1)
Basename(path) == SubSeq(path, LastIndexOf(path, "/") + 1, Len(path))

Thm_C26 ==
    pc \in AfterBuild =>
        LET Binds == containerConfig.HostConfig.Binds IN
        /\ Len(Binds) = 1
        /\ BindTarget(Binds[1]) = <<"/", "d", "a", "t", "a">>
        /\ Dirname(BindSource(Binds[1])) = hostDataPath
        /\ Basename(BindSource(Binds[1])) = serverDirs[idx]
        /\ \A j \in Dirs \ {idx} : Basename(BindSource(Binds[1])) # serverDirs[j]

\* the descriptor of the second directory, bound under the manager's mount
Wit_C26 ==
    /\ pc = "create"
    /\ idx = 2
    /\ hostDataPath = HostMountSource
    /\ BindSource(containerConfig.HostConfig.Binds[1])
           = HostMountSource \o <<"/">> \o DirNames[2]

(***************************************************************************)
(* C27. Defaults for optional fields: whatever subset of name, version,    *)
(* memory, network and port a metadata record lacks, the build of its      *)
(* descriptor raises no error on that account (it raises one only for a    *)
(* network that is present and is no string), and every absent field takes *)
(* its default: Bedrock Server, LATEST, 2 GiB, the process-wide network or *)
(* else Docker's default network, and host port 19132 where a port is      *)
(* bound.                                                                  *)
(***************************************************************************)
DefaultsTaken(md, cfg) ==
    /\ Absent(md.name) =>
          /\ cfg.Labels["server-name"]
                = Str(<<"B", "e", "d", "r", "o", "c", "k", " ", "S", "e", "r", "v", "e", "r">>)
          /\ cfg.Env[3] = <<"S", "E", "R", "V", "E", "R", "_", "N", "A", "M", "E", "=",
                            "B", "e", "d", "r", "o", "c", "k", " ", "S", "e", "r", "v", "e", "r">>
    /\ Absent(md.version) =>
          cfg.Env[2] = <<"V", "E", "R", "S", "I", "O", "N", "=", "L", "A", "T", "E", "S", "T">>
    /\ Absent(md.memory) => cfg.HostConfig.Memory = Num(2048)
    /\ Absent(md.network) =>
          cfg.HostConfig.NetworkMode
              = IF DOCKER_NETWORK = Null THEN Undefined ELSE DOCKER_NETWORK
    /\ Absent(md.port) /\ cfg.HostConfig.PortBindings # {} =>
          cfg.HostConfig.PortBindings = Binding(<<"1", "9", "1", "3", "2">>)

Thm_C27 ==
    /\ \A md \in Records :
          LET built == BuildContainerConfig(DirNames[1], md, DefaultDataDir) IN
          /\ built.threw => ~Absent(md.network) /\ md.network.type # "string"
          /\ ~built.threw => DefaultsTaken(md, built.config)
    /\ pc \in AfterBuild => DefaultsTaken(metadata, containerConfig)
    /\ \A i \in DOMAIN outcome :
          outcome[i] = "typeError" =>
              LET md == files[serverDirs[i]].json IN
              ~Absent(md.network) /\ md.network.type # "string"

\* a descriptor built from a record that holds no field at all, with no
\* process-wide network
Wit_C27 ==
    /\ pc = "create"
    /\ metadata = EmptyMeta
    /\ DOCKER_NETWORK = Null
    /\ containerConfig.HostConfig.Memory = Num(2048)
    /\ containerConfig.HostConfig.NetworkMode = Undefined
    /\ portResult = Num(19132)

(***************************************************************************)
(* C28. Create only after a successful existence check: createContainer is *)
(* invoked for a directory only after a listing that succeeded and showed  *)
(* no container labelled with its server ID; so, no other process acting   *)
(* on the daemon, whenever the script is about to call createContainer no  *)
(* container of that server ID exists.                                     *)
(***************************************************************************)
Orig_C28 == pc = "create" => Existing(serverDirs[idx]) = {}

(***************************************************************************)
(* C29. Outcome accounting: the directories are visited in order, each     *)
(* once; each visited directory has exactly one of the four outcomes, and  *)
(* the two counters and the number of skipped directories add up to the    *)
(* number of directories visited, which is N at the summary.  A directory  *)
(* is counted as a success only when its container was made and started in *)
(* this run; a directory has the outcome "no metadata.json" exactly when   *)
(* it holds none, and no call of the Docker API is made for it.            *)
(***************************************************************************)
Skips == {"noMetadata", "exists"}

Thm_C29 ==
    /\ \A i \in DOMAIN outcome :
          /\ outcome[i] \in {"pending", "success"} \cup Errors \cup Skips
          /\ i < idx => outcome[i] # "pending"
          /\ i > idx => outcome[i] = "pending"
    /\ successCount = Count(With({"success"}))
    /\ failureCount = Count(With(Errors))
    /\ successCount + failureCount + Count(With(Skips))
          = Count({i \in DOMAIN outcome : outcome[i] # "pending"})
    /\ pc \in {"summary", "done"} =>
          /\ DOMAIN outcome = 1..NDirs
          /\ successCount + failureCount + Count(With(Skips)) = NDirs
    /\ \A i \in With({"success"}) :
          /\ before[i] = {}
          /\ Existing(serverDirs[i]) # {}
          /\ pc # "idle" => \A c \in Existing(serverDirs[i]) : c.state = "running"
    /\ \A i \in DOMAIN outcome :
          outcome[i] # "pending" =>
              (outcome[i] = "noMetadata" <=> files[serverDirs[i]].kind = "missing")
    /\ \A i \in With({"noMetadata"}) : Existing(serverDirs[i]) = before[i]
    /\ pc \in {"list", "imageInspect", "pull", "create", "start_", "inspect"} =>
          files[serverDirs[idx]].kind # "missing"

\* a batch that ended with a directory skipped for its missing metadata.json
\* and another whose container was made and started
Wit_C29 ==
    /\ pc = "done"
    /\ NDirs = 2
    /\ Count(With({"noMetadata"})) = 1
    /\ successCount = 1
    /\ failureCount = 0

(***************************************************************************)
(* C30. Frame of the reconciliation: the containers a directory had before *)
(* the run are left as they were and no metadata record is written; for a  *)
(* directory whose container exists the script issues no pull, create or   *)
(* start; and start is only invoked on the container created earlier in    *)
(* the same iteration.                                                     *)
(***************************************************************************)
FrameC30 ==
    /\ pc # "idle" => \A i \in DOMAIN before : before[i] \subseteq containers
    /\ pc \in {"pull", "create", "start_"} => before[idx] = {}
    /\ pc = "start_" => Handle.state = "created" /\ Handle.label = Str(serverDirs[idx])

Orig_C30 == []FrameC30 /\ [][files' = files]_vars

(***************************************************************************)
(* C31. The entrypoint always launches the application: whatever the user, *)
(* the socket and the group database it starts with, docker-entrypoint.sh  *)
(* never exits before it has executed the application command.             *)
(***************************************************************************)
Orig_C31 == shpc # "failed"

(***************************************************************************)
(* The condition under which the summary prints "All servers recreated":   *)
(* the run has reached its summary with no failure and at least one        *)
(* success.  The summary changes nothing, so the state in which it has     *)
(* just run is the moment of the message.                                  *)
(***************************************************************************)
AllRecreatedDespiteFailures ==
    pc = "done" /\ successCount > 0

AllRecreated ==
    pc = "done" /\ failureCount = 0 /\ successCount > 0

(***************************************************************************)
(* C32. Summary message soundness.  As claimed: the "All servers           *)
(* recreated" message is printed only when, at that moment, every          *)
(* bedrock-* directory found by the scan has a container.                  *)
(***************************************************************************)
Orig_C32 ==
    AllRecreated => \A i \in Dirs : Existing(serverDirs[i]) # {}

(***************************************************************************)
(* C32, amended: the message is printed only when every scanned directory  *)
(* that holds a metadata.json has a container; a directory without         *)
(* metadata.json was skipped, has no container made by the run and does    *)
(* not prevent the message.                                                *)
(***************************************************************************)
Thm_C32 ==
    AllRecreated =>
        \A i \in Dirs :
            /\ files[serverDirs[i]].kind # "missing" => Existing(serverDirs[i]) # {}
            /\ files[serverDirs[i]].kind = "missing" =>
                   outcome[i] = "noMetadata" /\ Existing(serverDirs[i]) = before[i]

\* the message printed after one directory was recreated and another, without
\* metadata.json, was skipped and has no container
Wit_C32 ==
    /\ AllRecreated
    /\ \E i, j \in Dirs :
        /\ files[serverDirs[i]].kind = "missing"
        /\ Existing(serverDirs[i]) = {}
        /\ outcome[j] = "success"
        /\ Existing(serverDirs[j]) # {}

====
